---- MODULE Spec2Model ----
(***************************************************************************)
(* Model of the offline assembler front end.                               *)
(*                                                                         *)
(*   src/OfflineASMC/CodeGen.h        emission nodes, instruction macros,  *)
(*                                    Label, CodeCollectionScope           *)
(*   src/Cpp/LowLevelInterpreter.cpp  label directive macros               *)
(*   src/Cpp/test.h                   the build configuration              *)
(*                                                                         *)
(* A std::string is a sequence of text fragments; += and the adjacent      *)
(* string literals of the preprocessor are sequence concatenation.  The    *)
(* empty string is the empty sequence.                                     *)
(***************************************************************************)
EXTENDS Integers, Sequences, FiniteSets, TLC

VARIABLES
    status,      \* "running" | "exited" (std::exit) | "crashed" (stack exhausted)
    exitCode,    \* the argument of std::exit, 0 while running
    s_scopes,    \* CodeGen.h:77, the process-wide stack, bottom first
    heap,        \* number of CodeCollectionScope objects obtained from operator new
    code,        \* the Code last returned to the caller: <<>> or <<node>>
    out,         \* the std::string last returned by generate(): <<>> or <<string>>
    lastCall,    \* name of the last entry point the caller invoked
    lastArgs,    \* the arguments of that call
    lbl,         \* the Label under construction: <<>> or <<label>>
    calls,       \* the builder calls applied to lbl so far, in order
    lblOut,      \* the std::string last returned by Label::generate(): <<>> or <<string>>
    asmOpen,     \* "none" | "open" (after OFFLINE_ASM_BEGIN) | "closed" (after OFFLINE_ASM_END)
    asmBlocks,   \* the expansions placed in the asm( ) statement so far, in order
    bi,          \* test.cc: the int32_t argument i of the bounds-check variants
    blen,        \* test.cc: the int32_t argument len
    bres         \* what testBranch1..4 returned for (bi, blen); 0: not called yet

genVars == <<status, exitCode, s_scopes, heap, code, out, lastCall, lastArgs>>
lblVars == <<lbl, calls, lblOut>>
asmVars == <<asmOpen, asmBlocks>>
brVars == <<bi, blen, bres>>
vars == <<genVars, lblVars, asmVars, brVars>>

\* ------------------------------------------------------------------ bounds
MaxSeqLen == 2      \* children given to one seq(...) call
MaxOperands == 2    \* operands given to one instruction constructor
StackLimit == 3     \* constructor frames the call stack holds before it is exhausted
MaxCalls == 3       \* builder calls applied to one label
MaxBlocks == 3      \* label macros expanded between OFFLINE_ASM_BEGIN and OFFLINE_ASM_END

\* ------------------------------------------------------------- utilities
SeqsUpTo(S, n) == UNION {[1..k -> S] : k \in 0..n}

RECURSIVE Flatten(_)
Flatten(ss) == IF ss = <<>> THEN <<>> ELSE Head(ss) \o Flatten(Tail(ss))

Str(s) == IF s = "" THEN <<>> ELSE <<s>>

Has(s, tok) == \E i \in 1..Len(s) : s[i] = tok

\* ---------------------------------------------------------- emission nodes
\* CodeGen.h:19-29
TextGenerator(t) == [kind |-> "text", text |-> t, sequence |-> <<>>]

\* CodeGen.h:31-44
Reg(name) == [kind |-> "reg", text |-> name, sequence |-> <<>>]

\* CodeGen.h:46-49
SequenceGenerator(sequence) == [kind |-> "seq", text |-> "", sequence |-> sequence]

RECURSIVE generate(_)
RECURSIVE SequenceGenerator_generate(_)

\* CodeGen.h:23-25
TextGenerator_generate(node) == Str(node.text)

\* CodeGen.h:38-40
Reg_generate(node) == Str(node.text)

\* A SequenceGenerator::generate that puts a separator after each child.
SequenceGenerator_generate_sep(node) ==
    LET RECURSIVE Loop(_, _)
        Loop(i, result) ==
            IF i > Len(node.sequence) THEN result
            ELSE Loop(i + 1, result \o generate(node.sequence[i]) \o <<" ">>)
    IN Loop(1, <<>>)

\* CodeGen.h:51-57: result += code->generate() for each child, in list order
SequenceGenerator_generate(node) ==
    LET RECURSIVE Loop(_, _)
        Loop(i, result) ==
            IF i > Len(node.sequence) THEN result
            ELSE Loop(i + 1, result \o generate(node.sequence[i]))
    IN Loop(1, <<>>)

\* CodeGen.h:14: the virtual call
generate(node) ==
    CASE node.kind = "text" -> TextGenerator_generate(node)
      [] node.kind = "reg" -> Reg_generate(node)
      [] node.kind = "seq" -> SequenceGenerator_generate(node)

\* CodeGen.h:63-66
seq(children) == SequenceGenerator(children)

\* CodeGen.h:68-70
text(expr) == TextGenerator(expr)

\* CodeGen.h:72-74
reg(expr) == Reg(expr)

\* ------------------------------------------------------ instruction macros
\* What a call hands back: a Code, or the process ended by std::exit(n).
Ret(node) == [exits |-> FALSE, n |-> 0, value |-> <<node>>]
Exit(n) == [exits |-> TRUE, n |-> n, value |-> <<>>]

\* CodeGen.h:115
addp_impl(operands) == Ret(seq(<<text("add"), seq(operands), text("32")>>))
\* CodeGen.h:116
push_impl(operands) == Ret(seq(<<text("push"), seq(operands), text("32")>>))

\* An error constructor whose exit is skipped: it returns the empty sequence.
error_impl_noexit(operands) == Ret(seq(<<>>))

\* CodeGen.h:117: the lambda calls std::exit(1); its return is never reached
error_impl(operands) == Exit(1)

\* A move constructor that splices its operands in reverse.
move_impl_reversed(operands) ==
    Ret(seq(<<text("move"),
              seq([i \in 1..Len(operands) |-> operands[Len(operands) + 1 - i]]),
              text("32")>>))

\* CodeGen.h:118
move_impl(operands) == Ret(seq(<<text("move"), seq(operands), text("32")>>))
\* CodeGen.h:119
pop_impl(operands) == Ret(seq(<<text("pop"), seq(operands), text("32")>>))
\* CodeGen.h:120
subp_impl(operands) == Ret(seq(<<text("sub"), seq(operands), text("32")>>))
\* CodeGen.h:121
storepairq_impl(operands) == Ret(seq(<<text("storepairq"), seq(operands), text("32")>>))
\* CodeGen.h:122
storeq_impl(operands) == Ret(seq(<<text("storeq"), seq(operands), text("32")>>))
\* CodeGen.h:123
loadpairq_impl(operands) == Ret(seq(<<text("loadpairq"), seq(operands), text("32")>>))
\* CodeGen.h:124
loadq_impl(operands) == Ret(seq(<<text("loadq"), seq(operands), text("32")>>))
\* CodeGen.h:125
_break_impl(operands) == Ret(seq(<<text("brk"), seq(operands), text("32")>>))
\* CodeGen.h:126
jmp_impl(operands) == Ret(seq(<<text("jmp"), seq(operands), text("32")>>))
\* CodeGen.h:127
ret_impl(operands) == Ret(seq(<<text("ret"), seq(operands), text("32")>>))
\* CodeGen.h:128
call_impl(operands) == Ret(seq(<<text("call"), seq(operands), text("32")>>))
\* CodeGen.h:129
bpeq_impl(operands) == Ret(seq(<<text("bpeq"), seq(operands), text("32")>>))

InstrNames ==
    {"addp", "push", "error", "move", "pop", "subp", "storepairq", "storeq",
     "loadpairq", "loadq", "_break", "jmp", "ret", "call", "bpeq"}

\* CodeGen.h:109-112: name(args...) forwards the arguments, in order, to name_impl
INSTR(name, operands) ==
    CASE name = "addp" -> addp_impl(operands)
      [] name = "push" -> push_impl(operands)
      [] name = "error" -> error_impl(operands)
      [] name = "move" -> move_impl(operands)
      [] name = "pop" -> pop_impl(operands)
      [] name = "subp" -> subp_impl(operands)
      [] name = "storepairq" -> storepairq_impl(operands)
      [] name = "storeq" -> storeq_impl(operands)
      [] name = "loadpairq" -> loadpairq_impl(operands)
      [] name = "loadq" -> loadq_impl(operands)
      [] name = "_break" -> _break_impl(operands)
      [] name = "jmp" -> jmp_impl(operands)
      [] name = "ret" -> ret_impl(operands)
      [] name = "call" -> call_impl(operands)
      [] name = "bpeq" -> bpeq_impl(operands)

\* ------------------------------------------------------------ scope stack
\* CodeGen.h:81-84.  The body evaluates std::make_unique<CodeCollectionScope>()
\* before it pushes: operator new hands out storage and the same default
\* constructor runs on it, which evaluates make_unique again.  No frame reaches
\* its push; the call stack is exhausted after StackLimit frames and the
\* process dies there.  st is [s_scopes, heap, status]; this is the object
\* under construction.
RECURSIVE CodeCollectionScope(_, _, _)
CodeCollectionScope(this, st, depth) ==
    IF depth >= StackLimit
    THEN [st EXCEPT !.status = "crashed"]
    ELSE LET fresh == st.heap + 1
             inner == CodeCollectionScope(fresh, [st EXCEPT !.heap = fresh], depth + 1)
         IN IF inner.status # "running"
            THEN inner
            ELSE [inner EXCEPT !.s_scopes = Append(@, fresh)]

\* -------------------------------------------------------------- the caller
TextArgs == {","}
RegArgs == {"x0", "x1"}
\* The nodes a caller passes as children and operands: registers, and an
\* operand that is itself a sequence.
Codes == {reg(r) : r \in RegArgs} \cup {seq(<<reg("x0"), text(",")>>)}

Init ==
    /\ status = "running"
    /\ exitCode = 0
    /\ s_scopes = <<>>
    /\ heap = 0
    /\ code = <<>>
    /\ out = <<>>
    /\ lastCall = "none"
    /\ lastArgs = <<>>
    /\ lbl = <<>>
    /\ calls = <<>>
    /\ lblOut = <<>>
    /\ asmOpen = "none"
    /\ asmBlocks = <<>>
    /\ bi = 0
    /\ blen = 0
    /\ bres = [k \in 1..4 |-> 0]

CallText ==
    \E t \in TextArgs :
        /\ status = "running"
        /\ code' = <<text(t)>>
        /\ out' = <<>>
        /\ lastCall' = "text"
        /\ lastArgs' = <<t>>
        /\ UNCHANGED <<status, exitCode, s_scopes, heap, lblVars, asmVars, brVars>>

CallReg ==
    \E r \in RegArgs :
        /\ status = "running"
        /\ code' = <<reg(r)>>
        /\ out' = <<>>
        /\ lastCall' = "reg"
        /\ lastArgs' = <<r>>
        /\ UNCHANGED <<status, exitCode, s_scopes, heap, lblVars, asmVars, brVars>>

CallSeq ==
    \E children \in SeqsUpTo(Codes, MaxSeqLen) :
        /\ status = "running"
        /\ code' = <<seq(children)>>
        /\ out' = <<>>
        /\ lastCall' = "seq"
        /\ lastArgs' = children
        /\ UNCHANGED <<status, exitCode, s_scopes, heap, lblVars, asmVars, brVars>>

CallInstr ==
    \E name \in InstrNames, operands \in SeqsUpTo(Codes, MaxOperands) :
        /\ status = "running"
        /\ LET r == INSTR(name, operands)
           IN IF r.exits
              THEN /\ status' = "exited"
                   /\ exitCode' = r.n
                   /\ UNCHANGED <<code, out>>
              ELSE /\ code' = r.value
                   /\ out' = <<>>
                   /\ UNCHANGED <<status, exitCode>>
        /\ lastCall' = name
        /\ lastArgs' = operands
        /\ UNCHANGED <<s_scopes, heap, lblVars, asmVars, brVars>>

CallGenerate ==
    /\ status = "running"
    /\ code # <<>>
    /\ out = <<>>
    /\ out' = <<generate(code[1])>>
    /\ UNCHANGED <<status, exitCode, s_scopes, heap, code, lastCall, lastArgs,
                   lblVars, asmVars, brVars>>

\* push_scope: the caller constructs a CodeCollectionScope
PushScope ==
    /\ status = "running"
    /\ LET this == heap + 1
           st == CodeCollectionScope(this,
                     [s_scopes |-> s_scopes, heap |-> this, status |-> status], 0)
       IN /\ status' = st.status
          /\ s_scopes' = st.s_scopes
          /\ heap' = st.heap
          /\ lastArgs' = <<this>>
    /\ lastCall' = "CodeCollectionScope"
    /\ UNCHANGED <<exitCode, code, out, lblVars, asmVars, brVars>>

Next == CallText \/ CallReg \/ CallSeq \/ CallInstr \/ CallGenerate \/ PushScope

Spec == Init /\ [][Next]_vars

\* ------------------------------------------------------------------ Label
\* CodeGen.h:139 and the member initializers at 166-170
Label(name) ==
    [name |-> name, m_inFile |-> FALSE, m_global |-> FALSE, m_alignTo |-> 0,
     m_extern |-> FALSE]

\* CodeGen.h:173-175
label(name) == Label(name)

\* CodeGen.h:141-143
Label_generate(l) == Str(l.name)

\* CodeGen.h:145-148
inFile(l) == [l EXCEPT !.m_inFile = TRUE]

\* CodeGen.h:150-153
global(l) == [l EXCEPT !.m_global = TRUE]

\* An aligned that keeps an alignment already set.
aligned_keepFirst(l, alignTo) ==
    [l EXCEPT !.m_alignTo = IF @ = 0 THEN alignTo ELSE @]

\* CodeGen.h:155-158
aligned(l, alignTo) == [l EXCEPT !.m_alignTo = alignTo]

\* CodeGen.h:160-163
extern_(l) == [l EXCEPT !.m_extern = TRUE]

AlignArgs == {4, 16}
LabelNames == {"foo", "bar"}
BuilderCalls ==
    {<<"inFile", 0>>, <<"global", 0>>, <<"extern_", 0>>}
        \cup {<<"aligned", n>> : n \in AlignArgs}

\* One builder call, as the caller writes it: l.inFile(), l.aligned(n), ...
ApplyCall(l, c) ==
    CASE c[1] = "inFile" -> inFile(l)
      [] c[1] = "global" -> global(l)
      [] c[1] = "aligned" -> aligned(l, c[2])
      [] c[1] = "extern_" -> extern_(l)

RECURSIVE ApplyAll(_, _)
ApplyAll(l, cs) == IF cs = <<>> THEN l ELSE ApplyAll(ApplyCall(l, Head(cs)), Tail(cs))

CallLabel ==
    \E name \in LabelNames :
        /\ lbl' = <<label(name)>>
        /\ calls' = <<>>
        /\ lblOut' = <<>>
        /\ UNCHANGED <<genVars, asmVars, brVars>>

CallBuilder ==
    \E c \in BuilderCalls :
        /\ lbl # <<>>
        /\ Len(calls) < MaxCalls
        /\ lbl' = <<ApplyCall(lbl[1], c)>>
        /\ calls' = Append(calls, c)
        /\ lblOut' = <<>>
        /\ UNCHANGED <<genVars, asmVars, brVars>>

CallLabelGenerate ==
    /\ lbl # <<>>
    /\ lblOut = <<>>
    /\ lblOut' = <<Label_generate(lbl[1])>>
    /\ UNCHANGED <<genVars, lbl, calls, asmVars, brVars>>

LabelNext == CallLabel \/ CallBuilder \/ CallLabelGenerate

SpecLabel == Init /\ [][LabelNext]_vars

\* ------------------------------------------------ the build configuration
\* test.h:9
ENABLE(f) == FALSE
\* test.h:12 with test.h:20
COMPILER(f) == f \in {"CLANG"}
\* test.h:13 with test.h:19
OS(f) == f \in {"LINUX"}
\* test.h:14 with test.h:16-18 (WTF_CPU_UNKNOWN is 0)
CPU(f) == f \in {"REGISTER64", "ARM64"}

\* test.h:37-43 through STRINGIZE_VALUE_OF (test.h:34-35); ASAN_ENABLED is not defined
WTF_FATAL_CRASH_CODE == "0xc471"

\* InlineASM.h is not among the sources: its macros are kept as the macro's
\* name and argument.
SYMBOL_STRING(l) == <<"SYMBOL_STRING", l>>
LOCAL_LABEL_STRING(l) == <<"LOCAL_LABEL_STRING", l>>
HIDE_SYMBOL(l) == <<"HIDE_SYMBOL", l>>
THUMB_FUNC_PARAM(l) == <<"THUMB_FUNC_PARAM", l>>

\* ------------------------------------------------- label directive macros
\* LowLevelInterpreter.cpp:20-28
OFFLINE_ASM_BEGIN_SPACER ==
    IF CPU("ARM_THUMB2") THEN <<"bkpt #0\n">>
    ELSE IF CPU("ARM64") THEN <<"brk #", WTF_FATAL_CRASH_CODE, "\n">>
    ELSE IF CPU("X86_64") THEN <<"int3\n">>
    ELSE <<".int 0xbadbeef0\n">>

\* LowLevelInterpreter.cpp:58
OFFLINE_ASM_NO_ALT_ENTRY_DIRECTIVE(l) == <<>>

\* An alternate-entry directive emitted whatever the toolchain.
OFFLINE_ASM_ALT_ENTRY_DIRECTIVE_always(l) ==
    <<".alt_entry ">> \o SYMBOL_STRING(l) \o <<"\n">>

\* LowLevelInterpreter.cpp:60-65
OFFLINE_ASM_ALT_ENTRY_DIRECTIVE(l) ==
    IF COMPILER("CLANG") /\ OS("DARWIN") /\ ENABLE("OFFLINE_ASM_ALT_ENTRY")
    THEN <<".alt_entry ">> \o SYMBOL_STRING(l) \o <<"\n">>
    ELSE <<>>

\* LowLevelInterpreter.cpp:67-71
OFFLINE_ASM_TEXT_SECTION ==
    IF OS("DARWIN")
    THEN <<".section __TEXT,__jsc_int,regular,pure_instructions\n">>
    ELSE <<".text\n">>

\* LowLevelInterpreter.cpp:73-100.  ALT_ENTRY and VISIBILITY are macro names in
\* the source, applied there to label; here the caller applies them.
OFFLINE_ASM_GLOBAL_LABEL_IMPL(l, ALT_ENTRY, ALIGNMENT, VISIBILITY) ==
    IF CPU("ARM_THUMB2")
    THEN OFFLINE_ASM_TEXT_SECTION \o ALIGNMENT \o ALT_ENTRY
         \o <<".globl ">> \o SYMBOL_STRING(l) \o <<"\n">>
         \o VISIBILITY \o <<"\n">>
         \o <<".thumb\n">>
         \o <<".thumb_func ">> \o THUMB_FUNC_PARAM(l) \o <<"\n">>
         \o SYMBOL_STRING(l) \o <<":\n">>
    ELSE IF CPU("RISCV64")
    THEN OFFLINE_ASM_TEXT_SECTION \o ALIGNMENT \o ALT_ENTRY
         \o <<".globl ">> \o SYMBOL_STRING(l) \o <<"\n">>
         \o <<".attribute arch, \"rv64gc\"">> \o <<"\n">>
         \o VISIBILITY \o <<"\n">>
         \o SYMBOL_STRING(l) \o <<":\n">>
    ELSE OFFLINE_ASM_TEXT_SECTION \o ALIGNMENT \o ALT_ENTRY
         \o <<".globl ">> \o SYMBOL_STRING(l) \o <<"\n">>
         \o VISIBILITY \o <<"\n">>
         \o SYMBOL_STRING(l) \o <<":\n">>

\* LowLevelInterpreter.cpp:34-36
OFFLINE_ASM_BEGIN ==
    OFFLINE_ASM_GLOBAL_LABEL_IMPL("jsc_llint_begin",
        OFFLINE_ASM_NO_ALT_ENTRY_DIRECTIVE("jsc_llint_begin"),
        <<".balign 4\n">>, HIDE_SYMBOL("jsc_llint_begin"))
    \o OFFLINE_ASM_BEGIN_SPACER

\* LowLevelInterpreter.cpp:38-41
OFFLINE_ASM_END ==
    OFFLINE_ASM_BEGIN_SPACER
    \o OFFLINE_ASM_GLOBAL_LABEL_IMPL("jsc_llint_end",
           OFFLINE_ASM_NO_ALT_ENTRY_DIRECTIVE("jsc_llint_end"),
           <<".balign 4\n">>, HIDE_SYMBOL("jsc_llint_end"))

\* LowLevelInterpreter.cpp:102
OFFLINE_ASM_ALIGN4B == <<".balign 4\n">>
\* LowLevelInterpreter.cpp:103
OFFLINE_ASM_NOALIGN == <<>>

\* LowLevelInterpreter.cpp:105-113; no branch is taken on any other CPU
OFFLINE_ASM_ALIGN_TRAP(align) ==
    CASE CPU("ARM64") \/ CPU("ARM64E") ->
             OFFLINE_ASM_BEGIN_SPACER \o <<"\n .balignl ", align, ", 0xd4388e20\n">>
      [] ~(CPU("ARM64") \/ CPU("ARM64E")) /\ CPU("X86_64") ->
             OFFLINE_ASM_BEGIN_SPACER \o <<"\n .balign ", align, ", 0xcc\n">>
      [] ~(CPU("ARM64") \/ CPU("ARM64E") \/ CPU("X86_64")) /\ CPU("ARM") ->
             OFFLINE_ASM_BEGIN_SPACER \o <<"\n .balignw ", align, ", 0xde00\n">>
      [] ~(CPU("ARM64") \/ CPU("ARM64E") \/ CPU("X86_64") \/ CPU("ARM"))
         /\ CPU("RISCV64") ->
             OFFLINE_ASM_BEGIN_SPACER \o <<"\n .balignw ", align, ", 0x9002\n">>

\* LowLevelInterpreter.cpp:115
OFFLINE_ASM_EXPORT_SYMBOL(symbol) == <<>>

\* LowLevelInterpreter.cpp:117-118
OFFLINE_ASM_GLOBAL_LABEL(l) ==
    OFFLINE_ASM_GLOBAL_LABEL_IMPL(l, OFFLINE_ASM_ALT_ENTRY_DIRECTIVE(l),
        OFFLINE_ASM_ALIGN4B, HIDE_SYMBOL(l))
\* LowLevelInterpreter.cpp:119-120
OFFLINE_ASM_UNALIGNED_GLOBAL_LABEL(l) ==
    OFFLINE_ASM_GLOBAL_LABEL_IMPL(l, OFFLINE_ASM_ALT_ENTRY_DIRECTIVE(l),
        OFFLINE_ASM_NOALIGN, HIDE_SYMBOL(l))
\* LowLevelInterpreter.cpp:121-122
OFFLINE_ASM_ALIGNED_GLOBAL_LABEL(l, align) ==
    OFFLINE_ASM_GLOBAL_LABEL_IMPL(l, OFFLINE_ASM_ALT_ENTRY_DIRECTIVE(l),
        OFFLINE_ASM_ALIGN_TRAP(align), HIDE_SYMBOL(l))
\* LowLevelInterpreter.cpp:123-124
OFFLINE_ASM_GLOBAL_EXPORT_LABEL(l) ==
    OFFLINE_ASM_GLOBAL_LABEL_IMPL(l, OFFLINE_ASM_ALT_ENTRY_DIRECTIVE(l),
        OFFLINE_ASM_ALIGN4B, OFFLINE_ASM_EXPORT_SYMBOL(l))
\* LowLevelInterpreter.cpp:125-126
OFFLINE_ASM_UNALIGNED_GLOBAL_EXPORT_LABEL(l) ==
    OFFLINE_ASM_GLOBAL_LABEL_IMPL(l, OFFLINE_ASM_ALT_ENTRY_DIRECTIVE(l),
        OFFLINE_ASM_NOALIGN, OFFLINE_ASM_EXPORT_SYMBOL(l))

\* LowLevelInterpreter.cpp:128-132
OFFLINE_ASM_ALT_GLOBAL_LABEL(l) ==
    IF COMPILER("CLANG") /\ ENABLE("OFFLINE_ASM_ALT_ENTRY")
    THEN OFFLINE_ASM_GLOBAL_LABEL(l)
    ELSE <<>>

\* LowLevelInterpreter.cpp:134-136
OFFLINE_ASM_LOCAL_LABEL(l) ==
    LOCAL_LABEL_STRING(l) \o <<":\n">> \o OFFLINE_ASM_ALT_GLOBAL_LABEL(l)

\* LowLevelInterpreter.cpp:138-142
OFFLINE_ASM_OPCODE_DEBUG_LABEL(l) ==
    IF OS("LINUX") THEN <<l, ":\n">> ELSE <<>>

\* LowLevelInterpreter.cpp:54-56
OFFLINE_ASM_GLUE_LABEL(opcode) ==
    OFFLINE_ASM_OPCODE_DEBUG_LABEL(opcode) \o OFFLINE_ASM_LOCAL_LABEL(opcode)

AsmLabels == {"op_a", "op_b"}
AsmAligns == {"32"}

\* The label macros a generated assembly file places between OFFLINE_ASM_BEGIN
\* and OFFLINE_ASM_END, each with the text it expands to.  global says whether
\* the macro declares a global label.
Expansions ==
    UNION {
      { [macro |-> "OFFLINE_ASM_GLOBAL_LABEL", label |-> l, global |-> TRUE,
         text |-> OFFLINE_ASM_GLOBAL_LABEL(l)],
        [macro |-> "OFFLINE_ASM_UNALIGNED_GLOBAL_LABEL", label |-> l, global |-> TRUE,
         text |-> OFFLINE_ASM_UNALIGNED_GLOBAL_LABEL(l)],
        [macro |-> "OFFLINE_ASM_GLOBAL_EXPORT_LABEL", label |-> l, global |-> TRUE,
         text |-> OFFLINE_ASM_GLOBAL_EXPORT_LABEL(l)],
        [macro |-> "OFFLINE_ASM_UNALIGNED_GLOBAL_EXPORT_LABEL", label |-> l,
         global |-> TRUE, text |-> OFFLINE_ASM_UNALIGNED_GLOBAL_EXPORT_LABEL(l)],
        [macro |-> "OFFLINE_ASM_LOCAL_LABEL", label |-> l, global |-> FALSE,
         text |-> OFFLINE_ASM_LOCAL_LABEL(l)],
        [macro |-> "OFFLINE_ASM_GLUE_LABEL", label |-> l, global |-> FALSE,
         text |-> OFFLINE_ASM_GLUE_LABEL(l)] }
      \cup { [macro |-> "OFFLINE_ASM_ALIGNED_GLOBAL_LABEL", label |-> l,
              global |-> TRUE, text |-> OFFLINE_ASM_ALIGNED_GLOBAL_LABEL(l, a)]
             : a \in AsmAligns }
      : l \in AsmLabels }

\* asm ( <jsc_llint_begin> <spacer>
AsmBegin ==
    /\ asmOpen = "none"
    /\ asmOpen' = "open"
    /\ asmBlocks' = << [macro |-> "OFFLINE_ASM_BEGIN", label |-> "jsc_llint_begin",
                        global |-> TRUE, text |-> OFFLINE_ASM_BEGIN] >>
    /\ UNCHANGED <<genVars, lblVars, brVars>>

AsmLabel ==
    \E e \in Expansions :
        /\ asmOpen = "open"
        /\ Len(asmBlocks) <= MaxBlocks
        /\ asmBlocks' = Append(asmBlocks, e)
        /\ UNCHANGED <<asmOpen, genVars, lblVars, brVars>>

\* <spacer> <jsc_llint_end> );
AsmEnd ==
    /\ asmOpen = "open"
    /\ asmOpen' = "closed"
    /\ asmBlocks' = Append(asmBlocks,
           [macro |-> "OFFLINE_ASM_END", label |-> "jsc_llint_end",
            global |-> TRUE, text |-> OFFLINE_ASM_END])
    /\ UNCHANGED <<genVars, lblVars, brVars>>

AsmNext == AsmBegin \/ AsmLabel \/ AsmEnd

SpecAsm == Init /\ [][AsmNext]_vars

\* ------------------------------------------------- bounds-check variants
\* A w-register holds 32 bits, kept as two 16-bit halves.
Half == 256 * 256
SignBit == Half \div 2

\* The bits of an int32_t in a w-register.
WReg(x) == [hi |-> (x \div Half) % Half, lo |-> x % Half]

\* AArch64 AddWithCarry on 32 bits: the sum and the flags N, Z, C, V.
AddWithCarry(x, y, carry) ==
    LET lo == x.lo + y.lo + carry
        hi == x.hi + y.hi + (IF lo >= Half THEN 1 ELSE 0)
        r == [hi |-> hi % Half, lo |-> lo % Half]
    IN [result |-> r,
        N |-> r.hi >= SignBit,
        Z |-> (r.hi = 0 /\ r.lo = 0),
        C |-> hi >= Half,
        V |-> ((x.hi >= SignBit) = (y.hi >= SignBit))
              /\ ((r.hi >= SignBit) # (x.hi >= SignBit))]

\* The bitwise complement of a w-register.
NOT32(x) == [hi |-> Half - 1 - x.hi, lo |-> Half - 1 - x.lo]

\* cmp wn, wm: SUBS wzr, wn, wm, that is wn + NOT(wm) + 1
cmp(n, m) == AddWithCarry(n, NOT32(m), 1)

\* cmn wn, #imm: ADDS wzr, wn, #imm
cmn(n, imm) == AddWithCarry(n, WReg(imm), 0)

\* AArch64 condition codes, on the flags of the last comparison
ConditionHolds(cond, f) ==
    CASE cond = "eq" -> f.Z
      [] cond = "ls" -> ~f.C \/ f.Z
      [] cond = "le" -> f.Z \/ (f.N # f.V)

\* cset wd, cond
cset(cond, f) == IF ConditionHolds(cond, f) THEN 1 ELSE 0

\* test.cc:7-28: cmp len, i; b.ls 2f; mov res, #1; b 3f; 2: mov res, #2
testBranch1(i, len) ==
    LET f == cmp(WReg(len), WReg(i))
    IN IF ConditionHolds("ls", f) THEN 2 ELSE 1

\* test.cc:39-48
testBranch2(i, len) ==
    IF i = -1 THEN 2
    ELSE IF i < len THEN 1
    ELSE 2

\* A testBranch3 that drops the cmn/cset pair testing i == -1.
testBranch3_nocmn(i, len) ==
    LET tmp2 == cset("le", cmp(WReg(len), WReg(i)))
    IN IF tmp2 # 0 THEN 2 ELSE 1

\* test.cc:59-85: cmn i, #1; cset tmp, eq; cmp len, i; cset tmp2, le;
\* orr tmp, tmp, tmp2; cbnz tmp, 2f; 1: mov res, #1; b 3f; 2: mov res, #2
testBranch3(i, len) ==
    LET tmp0 == cset("eq", cmn(WReg(i), 1))
        tmp2 == cset("le", cmp(WReg(len), WReg(i)))
        tmp == IF tmp0 # 0 \/ tmp2 # 0 THEN 1 ELSE 0
    IN IF tmp # 0 THEN 2 ELSE 1

\* test.cc:96-105
testBranch4(i, len) ==
    IF i = -1 THEN 2
    ELSE IF i < len THEN 1
    ELSE 2

\* int32_t arguments: those of correctness (test.cc:116-137: i in 0..9 and -1,
\* len 7) and the edges of the type.
INT32_MIN == -2147483647 - 1
INT32_MAX == 2147483647
Int32Args ==
    (0..9) \cup {-1, -2, -8, INT32_MIN, INT32_MIN + 1, INT32_MAX - 1, INT32_MAX}

InitBranch ==
    /\ status = "running"
    /\ exitCode = 0
    /\ s_scopes = <<>>
    /\ heap = 0
    /\ code = <<>>
    /\ out = <<>>
    /\ lastCall = "none"
    /\ lastArgs = <<>>
    /\ lbl = <<>>
    /\ calls = <<>>
    /\ lblOut = <<>>
    /\ asmOpen = "none"
    /\ asmBlocks = <<>>
    /\ bi \in Int32Args
    /\ blen \in Int32Args
    /\ bres = [k \in 1..4 |-> 0]

CallTestBranch1 ==
    /\ bres[1] = 0
    /\ bres' = [bres EXCEPT ![1] = testBranch1(bi, blen)]
    /\ UNCHANGED <<genVars, lblVars, asmVars, bi, blen>>

CallTestBranch2 ==
    /\ bres[2] = 0
    /\ bres' = [bres EXCEPT ![2] = testBranch2(bi, blen)]
    /\ UNCHANGED <<genVars, lblVars, asmVars, bi, blen>>

CallTestBranch3 ==
    /\ bres[3] = 0
    /\ bres' = [bres EXCEPT ![3] = testBranch3(bi, blen)]
    /\ UNCHANGED <<genVars, lblVars, asmVars, bi, blen>>

CallTestBranch4 ==
    /\ bres[4] = 0
    /\ bres' = [bres EXCEPT ![4] = testBranch4(bi, blen)]
    /\ UNCHANGED <<genVars, lblVars, asmVars, bi, blen>>

BranchNext == CallTestBranch1 \/ CallTestBranch2 \/ CallTestBranch3 \/ CallTestBranch4

SpecBranch == InitBranch /\ [][BranchNext]_vars

\* No CodeCollectionScope is ever constructed: the stack stays empty, and a
\* process that has asked operator new for a scope has died in the constructor.
\* Hence no reachable state offers an object to call addCode, code or the
\* destructor on.
NoScopeIsEverConstructed ==
    /\ s_scopes = <<>>
    /\ heap > 0 => status = "crashed"

\* The renderings of a list of nodes, concatenated in list order.
Rendered(nodes) == Flatten([i \in 1..Len(nodes) |-> generate(nodes[i])])

\* ------------------------------------------------------------------ claims

\* C2: the sequence push_scope A, push_scope B, add_code at both levels,
\* pop_scope B, pop_scope A runs to its end without a fatal exit (and A's
\* finalized node then renders everything added at both levels, in insertion
\* order).  Stated for the steps of that sequence a run can take: once
\* push_scope A has been called the process is still running with exit
\* status 0.
C2_NestedScopesComplete ==
    lastCall = "CodeCollectionScope" => (status = "running" /\ exitCode = 0)

\* C3: a push_scope call completes, the stack is exactly one entry deeper than
\* before it, and the scope it constructed is the top entry.
C3_PushLeavesHandleOnTop ==
    [][lastCall' = "CodeCollectionScope" =>
          /\ status' = "running"
          /\ Len(s_scopes') = Len(s_scopes) + 1
          /\ s_scopes'[Len(s_scopes')] = lastArgs'[1]]_vars

\* A directive block holds an alternate-entry directive.
HasAltEntry(t) == Has(t, ".alt_entry ")

\* A directive block holds an alignment directive.
HasAlignment(t) ==
    \E i \in 1..Len(t) :
        t[i] \in {".balign 4\n", "\n .balignl ", "\n .balign ", "\n .balignw "}

\* The toolchain takes alternate-entry directives.
AltEntrySupported ==
    COMPILER("CLANG") /\ OS("DARWIN") /\ ENABLE("OFFLINE_ASM_ALT_ENTRY")

C6_BareLabelBlock ==
    (lbl # <<>> /\ calls = <<>> /\ lblOut # <<>>) =>
        LET t == lblOut[1]
        IN /\ \E i \in 1..Len(OFFLINE_ASM_TEXT_SECTION) :
                  Has(t, OFFLINE_ASM_TEXT_SECTION[i])
           /\ \E i \in 1..(Len(t) - 1) : t[i] = lbl[1].name /\ t[i + 1] = ":\n"
           /\ ~HasAlignment(t)
           /\ ~HasAltEntry(t)

\* The rearrangements of a list of builder calls.
PermsOf(cs) ==
    {[i \in 1..Len(cs) |-> cs[f[i]]] : f \in Permutations(1..Len(cs))}

\* The argument of the last aligned call of a list, 0 (the initial m_alignTo)
\* when it has none.
RECURSIVE LastAlign(_)
LastAlign(cs) ==
    IF cs = <<>> THEN 0
    ELSE IF cs[Len(cs)][1] = "aligned" THEN cs[Len(cs)][2]
    ELSE LastAlign(SubSeq(cs, 1, Len(cs) - 1))

\* A builder call applied a second time changes neither attributes nor text.
BuilderIdempotent(l) ==
    \A c \in BuilderCalls :
        /\ ApplyCall(ApplyCall(l, c), c) = ApplyCall(l, c)
        /\ Label_generate(ApplyCall(ApplyCall(l, c), c)) = Label_generate(ApplyCall(l, c))

\* C7 as stated: a builder call applied a second time changes nothing, and the
\* same calls in any other order give the same attributes and the same text.
C7_BuilderOrderIrrelevant ==
    lbl # <<>> =>
        /\ BuilderIdempotent(lbl[1])
        /\ \A p \in PermsOf(calls) :
               LET q == ApplyAll(label(lbl[1].name), p)
               IN q = lbl[1] /\ Label_generate(q) = Label_generate(lbl[1])

\* C7 as amended: a builder call applied a second time changes nothing; the
\* same calls in any other order give the same text and the same inFile,
\* global and extern attributes; the alignment is the argument of the last
\* aligned call, so two orders agree on it when their last aligned calls carry
\* the same argument.
C7_BuilderResolved ==
    lbl # <<>> =>
        /\ BuilderIdempotent(lbl[1])
        /\ lbl[1].m_alignTo = LastAlign(calls)
        /\ \A p \in PermsOf(calls) :
               LET q == ApplyAll(label(lbl[1].name), p)
               IN /\ Label_generate(q) = Label_generate(lbl[1])
                  /\ q.m_inFile = lbl[1].m_inFile
                  /\ q.m_global = lbl[1].m_global
                  /\ q.m_extern = lbl[1].m_extern
                  /\ LastAlign(p) = LastAlign(calls) => q = lbl[1]

C7_Witness ==
    /\ lbl # <<>>
    /\ calls = << <<"aligned", 4>>, <<"aligned", 16>>, <<"global", 0>> >>
    /\ lbl[1].m_alignTo = 16
    /\ lbl[1].m_global
    /\ lblOut # <<>>

\* C8: a Sequence renders to the concatenation of its children's renderings in
\* list order, with nothing before, between or after them; for two children
\* s1, s2 that is render(s1) followed by render(s2).
C8_SequenceConcat ==
    (lastCall = "seq" /\ out # <<>>) =>
        /\ out[1] = Rendered(lastArgs)
        /\ Len(lastArgs) = 2 => out[1] = generate(lastArgs[1]) \o generate(lastArgs[2])

C8_Witness ==
    /\ lastCall = "seq"
    /\ lastArgs = <<seq(<<reg("x0"), text(",")>>), reg("x1")>>
    /\ out = << <<"x0", ",", "x1">> >>

\* The mnemonic each constructor name stands for.
C9_Mnemonic(name) ==
    CASE name = "addp" -> "add"
      [] name = "subp" -> "sub"
      [] name = "_break" -> "brk"
      [] OTHER -> name

\* C9: every instruction constructor other than error renders to its mnemonic
\* followed by the renderings of its operands in the order the caller gave
\* them (and then the fixed suffix), so the text depends on nothing but the
\* name and the operands.
C9_InstrOperandOrder ==
    (lastCall \in InstrNames \ {"error"} /\ out # <<>>) =>
        out[1] = <<C9_Mnemonic(lastCall)>> \o Rendered(lastArgs) \o <<"32">>

C9_Witness ==
    /\ lastCall = "move"
    /\ lastArgs = <<reg("x0"), reg("x1")>>
    /\ out = << <<"move", "x0", "x1", "32">> >>

\* C10: a call of the error constructor ends the process at once with a
\* non-zero status: it hands back no node and leaves the last rendering as it
\* was, and no step follows the exit.
C10_ErrorAborts ==
    /\ [](lastCall = "error" => (status = "exited" /\ exitCode # 0))
    /\ [][/\ lastCall' = "error" => (code' = code /\ out' = out /\ s_scopes' = s_scopes)
          /\ status = "exited" => UNCHANGED vars]_vars

C10_Witness ==
    /\ lastCall = "error"
    /\ status = "exited"
    /\ exitCode = 1
    /\ Len(lastArgs) = 2
    /\ code # <<>>
    /\ out # <<>>

\* The value C11 names: 2 when i is -1 or i >= len as signed numbers, else 1.
C11_Expected(i, len) == IF i = -1 \/ i >= len THEN 2 ELSE 1

\* C11 as stated: for all 32-bit signed i and len the four variants return the
\* same value, 2 when i = -1 or i >= len (signed) and 1 otherwise.
C11_AllVariantsAgree ==
    \A k \in 1..4 : bres[k] # 0 => bres[k] = C11_Expected(bi, blen)

\* C11 as amended: testBranch2, testBranch3 and testBranch4 return that value
\* for all 32-bit signed i and len; testBranch1 compares len and i as unsigned
\* numbers, so it returns that value exactly when i = -1 or i and len have the
\* same sign (both >= 0 or both < 0), and the other of 1 and 2 otherwise.
C11_VariantsResolved ==
    /\ \A k \in 2..4 : bres[k] # 0 => bres[k] = C11_Expected(bi, blen)
    /\ bres[1] # 0 =>
           /\ bres[1] \in {1, 2}
           /\ (bres[1] = C11_Expected(bi, blen)) <=>
                  (bi = -1 \/ (bi >= 0 /\ blen >= 0) \/ (bi < 0 /\ blen < 0))

C11_Witness ==
    /\ bi = -1
    /\ blen = 7
    /\ bres = [k \in 1..4 |-> 2]

====
